---------------------------- MODULE Spec2Model ----------------------------
(***************************************************************************)
(* A model of hookmaster: the configuration store (config.rs), the hook    *)
(* orchestrator (hook_manager.rs), the commit message formatter            *)
(* (commit_msg.rs) and the repository locator (git_hooks.rs).              *)
(*                                                                         *)
(* Text is modelled as a sequence of one-character strings, so that        *)
(* trimming, searching, escaping and splitting are computed character by   *)
(* character as the Rust code computes them.                               *)
(***************************************************************************)
EXTENDS Integers, Sequences, FiniteSets, TLC

VARIABLES
    \* --- configuration store: build a config, save it, load it back
    cfgPc,      \* "new" | "built" | "saved" | "loaded"
    hooks,      \* GitHooksConfig.hooks of the configuration in memory
    cfgFile,    \* text of the file written by save_to_file, or NoFile
    loaded,     \* result of load_from_file on cfgFile, or NoResult
    \* --- hook orchestrator: hookmaster run <hook_name> [args]
    platform,   \* the build target: "windows" or "unix"
    cwdConfig,  \* text of githooks.toml in the working directory, or NoFile
    runPc,      \* "idle" before run_hook is called, "done" after it returned
    runName,    \* the hook_name run_hook was called with
    runArgs,    \* the args run_hook was called with
    runLoad,    \* what loading the configuration gave, or NoResult
    spawned,    \* the commands run_hook handed to the system, each with its outcome
    runResult,  \* what run_hook returned, or NoResult
    \* --- commit message formatter: format_commit_message_from_branch
    fmtPc,      \* "idle" before the call, "done" after it
    fmtBranch,  \* the branch name it is called with
    fmtOut,     \* Some(what it returned), or NoResult before the call
    \* --- commit message file: hookmaster prepare-commit-msg <file>
    msgText,    \* the content of the commit message file
    msgAccess,  \* whether the file can be read and whether it can be written
    gitHead,    \* what "git rev-parse --abbrev-ref HEAD" gives at the moment
    amCalls,    \* how many times process_commit_msg_file has been called
    amPrev,     \* the content of the file when the last call started
    amHead,     \* what git gave when the last call started
    amQueried,  \* whether the last call asked git for the branch name
    amWrote,    \* whether the last call wrote the file
    amResult,   \* what the last call returned, or NoResult
    \* --- repository locator: find_git_repositories(root)
    fs,         \* the tree under root: path (names from root down) -> "dir" or "file"
    locPc,      \* "build" while the tree is made, "found" after the search
    locRepos,   \* Some(the list find_git_repositories returned), or NoResult
    \* --- one working directory: hookmaster init, and install_to_repo on it
    repoTarget, \* the build target: "unix" or "windows"
    repoDir,    \* the directory: .git, .git/hooks and its entries, githooks.toml
    repoBefore, \* the directory as it was when the last operation started
    repoLog,    \* the operations done so far, each with what it returned
    \* --- hookmaster add <path>: add_hooks_to_path on a tree
    addTarget,  \* the build target: "unix" or "windows"
    addTree,    \* the tree under the path: path -> "dir", "locked" or "file"
    addDirs,    \* the directories of the tree that hold .git: path -> directory
    addBefore,  \* addDirs as it was when add_hooks_to_path started
    addPc,      \* "idle" before add_hooks_to_path is called, "done" after
    addFound,   \* Some(what find_git_repositories returned to it), or NoResult
    addLog,     \* the repositories install_hooks_to_repo was called on, in
                \* order, each with whether it returned Ok
    addResult   \* Some(what add_hooks_to_path returned), or NoResult

cfgVars == <<cfgPc, hooks, cfgFile, loaded>>
runVars == <<platform, cwdConfig, runPc, runName, runArgs, runLoad, spawned, runResult>>
fmtVars == <<fmtPc, fmtBranch, fmtOut>>
msgVars == <<msgText, msgAccess, gitHead, amCalls, amPrev, amHead, amQueried, amWrote,
            amResult>>
locVars == <<fs, locPc, locRepos>>
repoVars == <<repoTarget, repoDir, repoBefore, repoLog>>
addVars == <<addTarget, addTree, addDirs, addBefore, addPc, addFound, addLog, addResult>>

\* Option values: None is the empty sequence, Some(x) the sequence holding x
None == <<>>
Some(x) == <<x>>

NoFile == None
NoResult == None

-----------------------------------------------------------------------------
(* Bounds of the model *)

\* longest key of the entry inserted into a configuration
MaxKeyLen == 1
\* longest command of the entry inserted into a configuration
MaxValLen == 2
\* most lines of the githooks.toml that run_hook finds
MaxCfgLines == 2
\* longest branch name made of arbitrary characters
MaxBranchLen == 6
\* longest text following the ticket in a branch name that starts with one
MaxTailLen == 4
\* longest commit message file at the start
MaxMsgLen == 3
\* most calls of process_commit_msg_file on one file
MaxCalls == 2
\* most files and directories below the root that is searched
MaxEntries == 6
\* operations on one working directory
MaxOps == 2

-----------------------------------------------------------------------------
(* Characters and strings *)

\* The printable ASCII characters from 32 (space) to 95 (_), in code order.
AsciiLow ==
    << " ", "!", "\"", "#", "$", "%", "&", "'", "(", ")", "*", "+", ",", "-",
       ".", "/", "0", "1", "2", "3", "4", "5", "6", "7", "8", "9", ":", ";",
       "<", "=", ">", "?", "@", "A", "B", "C", "D", "E", "F", "G", "H", "I",
       "J", "K", "L", "M", "N", "O", "P", "Q", "R", "S", "T", "U", "V", "W",
       "X", "Y", "Z", "[", "\\", "]", "^", "_" >>

\* The printable ASCII characters from 97 (a) to 126 (~), in code order.
AsciiHigh ==
    << "a", "b", "c", "d", "e", "f", "g", "h", "i", "j", "k", "l", "m", "n",
       "o", "p", "q", "r", "s", "t", "u", "v", "w", "x", "y", "z", "{", "|",
       "}", "~" >>

\* The byte value of each character of the model.
CodeTable ==
    [c \in {"\t", "\n", "\r"} |-> IF c = "\t" THEN 9 ELSE IF c = "\n" THEN 10 ELSE 13]
    @@ [c \in {AsciiLow[i] : i \in 1..Len(AsciiLow)} |->
            31 + (CHOOSE i \in 1..Len(AsciiLow) : AsciiLow[i] = c)]
    @@ [c \in {AsciiHigh[i] : i \in 1..Len(AsciiHigh)} |->
            96 + (CHOOSE i \in 1..Len(AsciiHigh) : AsciiHigh[i] = c)]

\* The byte value of a character (str compares byte-wise in Rust).
Code(c) == CodeTable[c]

\* char::is_whitespace, on the characters of the model
IsWhitespace(c) == c \in {" ", "\t", "\n", "\r"}

\* All strings over alphabet A of length at most n.
RECURSIVE StringsUpTo(_, _)
StringsUpTo(A, n) ==
    IF n = 0 THEN {<<>>}
    ELSE LET shorter == StringsUpTo(A, n - 1)
         IN  shorter \cup {Append(s, c) : s \in {t \in shorter : Len(t) = n - 1}, c \in A}

\* str::trim_start
RECURSIVE TrimStart(_)
TrimStart(s) ==
    IF s # <<>> /\ IsWhitespace(Head(s)) THEN TrimStart(Tail(s)) ELSE s

\* str::trim_end
RECURSIVE TrimEnd(_)
TrimEnd(s) ==
    IF s # <<>> /\ IsWhitespace(s[Len(s)]) THEN TrimEnd(SubSeq(s, 1, Len(s) - 1)) ELSE s

\* str::trim
Trim(s) == TrimEnd(TrimStart(s))

\* str::starts_with(pat) for a string pattern
StartsWith(s, pat) ==
    Len(s) >= Len(pat) /\ SubSeq(s, 1, Len(pat)) = pat

\* str::ends_with(pat) for a string pattern
EndsWith(s, pat) ==
    Len(s) >= Len(pat) /\ SubSeq(s, Len(s) - Len(pat) + 1, Len(s)) = pat

\* str::find(char): the index of the first occurrence of c, 0 when there is none
FindChar(s, c) ==
    IF \E i \in 1..Len(s) : s[i] = c
    THEN CHOOSE i \in 1..Len(s) : s[i] = c /\ \A j \in 1..(i - 1) : s[j] # c
    ELSE 0

\* str::contains(char)
ContainsChar(s, c) == \E i \in 1..Len(s) : s[i] = c

\* whether pat occurs in s at index i
MatchesAt(s, i, pat) ==
    i + Len(pat) - 1 <= Len(s) /\ \A j \in 1..Len(pat) : s[i + j - 1] = pat[j]

\* str::replace(pat, to) from index i of s on
RECURSIVE ReplaceFrom(_, _, _, _)
ReplaceFrom(s, i, pat, to) ==
    IF i > Len(s) THEN <<>>
    ELSE IF MatchesAt(s, i, pat)
         THEN to \o ReplaceFrom(s, i + Len(pat), pat, to)
         ELSE <<s[i]>> \o ReplaceFrom(s, i + 1, pat, to)

\* str::replace(pat, to): every non-overlapping match of pat, left to right
Replace(s, pat, to) == ReplaceFrom(s, 1, pat, to)

\* the pieces of s between occurrences of the character c (str::split(c))
RECURSIVE SplitChar(_, _)
SplitChar(s, c) ==
    LET i == FindChar(s, c)
    IN  IF i = 0 THEN <<s>>
        ELSE <<SubSeq(s, 1, i - 1)>> \o SplitChar(SubSeq(s, i + 1, Len(s)), c)

\* str::lines: split at "\n", a final empty piece is not a line, and a
\* trailing "\r" of a line is not part of it
Lines(s) ==
    LET pieces == SplitChar(s, "\n")
        kept == IF pieces[Len(pieces)] = <<>>
                THEN SubSeq(pieces, 1, Len(pieces) - 1)
                ELSE pieces
        strip(l) == IF EndsWith(l, <<"\r">>) THEN SubSeq(l, 1, Len(l) - 1) ELSE l
    IN  [i \in 1..Len(kept) |-> strip(kept[i])]

\* byte-wise lexicographic order on strings (Ord for str)
RECURSIVE StrLess(_, _)
StrLess(a, b) ==
    IF a = <<>> THEN b # <<>>
    ELSE IF b = <<>> THEN FALSE
    ELSE IF Head(a) = Head(b) THEN StrLess(Tail(a), Tail(b))
    ELSE Code(Head(a)) < Code(Head(b))

\* the strings of the finite set S in ascending order
RECURSIVE SortStrings(_)
SortStrings(S) ==
    IF S = {} THEN <<>>
    ELSE LET least == CHOOSE x \in S : \A y \in S \ {x} : StrLess(x, y)
         IN  <<least>> \o SortStrings(S \ {least})

\* slice::join(sep)
RECURSIVE Join(_, _)
Join(parts, sep) ==
    IF parts = <<>> THEN <<>>
    ELSE IF Len(parts) = 1 THEN parts[1]
    ELSE parts[1] \o sep \o Join(Tail(parts), sep)

-----------------------------------------------------------------------------
(* Configuration store: config.rs *)

\* HashMap::insert
MapInsert(h, k, v) ==
    [x \in (DOMAIN h) \cup {k} |-> IF x = k THEN v ELSE h[x]]

\* GitHooksConfig::default(): no hooks
DefaultConfig == [k \in {} |-> <<>>]

\* GitHooksConfig::create_sample
SampleConfig ==
    LET preCommit == <<"p","r","e","-","c","o","m","m","i","t">>
        prePush == <<"p","r","e","-","p","u","s","h">>
        commitMsg == <<"c","o","m","m","i","t","-","m","s","g">>
        fmtClippy == <<"c","a","r","g","o"," ","f","m","t"," ","-","-","c","h","e","c","k",
                       " ","&","&"," ","c","a","r","g","o"," ","c","l","i","p","p","y",
                       " ","-","-"," ","-","D"," ","w","a","r","n","i","n","g","s">>
        cargoTest == <<"c","a","r","g","o"," ","t","e","s","t">>
    IN  MapInsert(MapInsert(MapInsert(DefaultConfig, preCommit, fmtClippy),
                            prePush, cargoTest),
                  commitMsg, <<>>)

\* the value of one line of the file: parse_toml's quote handling
ParseValue(value_part) ==
    IF StartsWith(value_part, <<"\"">>) /\ EndsWith(value_part, <<"\"">>)
       /\ Len(value_part) >= 2
    THEN LET inner == SubSeq(value_part, 2, Len(value_part) - 1)
         IN  Replace(Replace(inner, <<"\\", "\"">>, <<"\"">>), <<"\\", "\\">>, <<"\\">>)
    ELSE IF StartsWith(value_part, <<"'">>) /\ EndsWith(value_part, <<"'">>)
            /\ Len(value_part) >= 2
    THEN SubSeq(value_part, 2, Len(value_part) - 1)
    ELSE IF value_part = <<>> THEN <<>>
    ELSE value_part

\* GitHooksConfig::parse_toml, from line number n of lines on, with the
\* entries h read so far
RECURSIVE ParseLines(_, _, _)
ParseLines(lines, n, h) ==
    IF n > Len(lines) THEN [ok |-> TRUE, hooks |-> h]
    ELSE LET line == Trim(lines[n])
         IN  IF line = <<>> \/ StartsWith(line, <<"#">>)
             THEN ParseLines(lines, n + 1, h)
             ELSE LET eq_pos == FindChar(line, "=")
                  IN  IF eq_pos # 0
                      THEN LET key == Trim(SubSeq(line, 1, eq_pos - 1))
                               value_part == Trim(SubSeq(line, eq_pos + 1, Len(line)))
                           IN  IF key = <<>> \/ ContainsChar(key, " ")
                               THEN [ok |-> FALSE, error |-> "InvalidKey",
                                     key |-> key, line |-> n]
                               ELSE ParseLines(lines, n + 1,
                                               MapInsert(h, key, ParseValue(value_part)))
                      ELSE [ok |-> FALSE, error |-> "InvalidSyntax",
                            content |-> line, line |-> n]

\* a line parse_toml does not skip
IsParsedLine(l) == Trim(l) # <<>> /\ ~StartsWith(Trim(l), <<"#">>)

\* a parser that numbers only the lines it does not skip
parse_toml_NumberParsedLines(content) ==
    ParseLines(SelectSeq(Lines(content), IsParsedLine), 1, DefaultConfig)

\* GitHooksConfig::parse_toml
parse_toml(content) == ParseLines(Lines(content), 1, DefaultConfig)

\* to_toml_string escaping the quotes but not the backslashes
EscapeValue_QuotesOnly(value) ==
    Replace(value, <<"\"">>, <<"\\", "\"">>)

\* the escaping of a value in to_toml_string
EscapeValue(value) ==
    Replace(Replace(value, <<"\\">>, <<"\\", "\\">>), <<"\"">>, <<"\\", "\"">>)

\* GitHooksConfig::to_toml_string
to_toml_string(h) ==
    LET sorted == SortStrings(DOMAIN h)
        lines == [i \in 1..Len(sorted) |->
                    sorted[i] \o <<" ", "=", " ", "\"">> \o EscapeValue(h[sorted[i]])
                    \o <<"\"">>]
    IN  Join(lines, <<"\n">>) \o <<"\n">>

\* GitHooksConfig::get_hook_command
get_hook_command(h, hook_name) ==
    IF hook_name \in DOMAIN h THEN Some(h[hook_name]) ELSE None

\* has_active_hook without the trim: a whitespace command counts as active
has_active_hook_NoTrim(h, hook_name) ==
    IF hook_name \in DOMAIN h THEN h[hook_name] # <<>> ELSE FALSE

\* GitHooksConfig::has_active_hook
has_active_hook(h, hook_name) ==
    IF hook_name \in DOMAIN h THEN Trim(h[hook_name]) # <<>> ELSE FALSE

-----------------------------------------------------------------------------
(* The configuration store as a state machine: a configuration is created  *)
(* (empty or the sample), an entry is inserted into it, it is saved to a   *)
(* file and the file is loaded back.                                       *)

\* characters of the keys the model inserts
KeyAlphabet == {"a", "=", "#", " ", "\t"}
\* characters of the commands the model inserts
ValueAlphabet == {"x", " ", "\"", "\\", "'", "=", "#"}

KeyInputs == StringsUpTo(KeyAlphabet, MaxKeyLen)
ValueInputs == StringsUpTo(ValueAlphabet, MaxValLen)

InitConfigVars ==
    /\ cfgPc = "new"
    /\ hooks \in {DefaultConfig, SampleConfig}
    /\ cfgFile = NoFile
    /\ loaded = NoResult

\* hooks.insert(key, value) on the public map of a configuration
InsertHook(key, value) ==
    /\ cfgPc = "new"
    /\ hooks' = MapInsert(hooks, key, value)
    /\ cfgPc' = "built"
    /\ UNCHANGED <<cfgFile, loaded>>

\* GitHooksConfig::save_to_file
SaveToFile ==
    /\ cfgPc \in {"new", "built"}
    /\ cfgFile' = Some(to_toml_string(hooks))
    /\ cfgPc' = "saved"
    /\ UNCHANGED <<hooks, loaded>>

\* GitHooksConfig::load_from_file on the file that was saved
LoadFromFile ==
    /\ cfgPc = "saved"
    /\ loaded' = Some(parse_toml(cfgFile[1]))
    /\ cfgPc' = "loaded"
    /\ UNCHANGED <<hooks, cfgFile>>

NextConfig ==
    \/ /\ cfgPc = "new"
       /\ \E key \in KeyInputs, value \in ValueInputs : InsertHook(key, value)
    \/ SaveToFile
    \/ LoadFromFile


-----------------------------------------------------------------------------
(* Hook orchestrator, run_hook: hook_manager.rs *)

\* GitHooksConfig::load_from_file: the file may fail to be read
load_from_file(text, readOk) ==
    IF ~readOk THEN [ok |-> FALSE, error |-> "Read"]
    ELSE parse_toml(text)

\* a load that falls back to the empty configuration when the file does not
\* load
load_DefaultOnError(file, readOk) ==
    IF file # NoFile /\ load_from_file(file[1], readOk).ok
    THEN load_from_file(file[1], readOk)
    ELSE [ok |-> TRUE, hooks |-> DefaultConfig]

\* GitHooksConfig::load: an absent githooks.toml is the empty configuration
load(file, readOk) ==
    IF file # NoFile THEN load_from_file(file[1], readOk)
    ELSE [ok |-> TRUE, hooks |-> DefaultConfig]

\* the process run_hook starts for a command: cmd /C on Windows, sh -c elsewhere
ShellCommand(target, command, args) ==
    IF target = "windows"
    THEN [program |-> "cmd", args |-> <<<<"/", "C">>, command>>]
    ELSE [program |-> "sh", args |-> <<<<"-", "c">>, command>>]

\* what Command::status() can give: the process could not be started (an
\* io::Error), it exited with a code, or a signal ended it (no code)
StatusOutcomes ==
    {[started |-> FALSE, code |-> 0, signal |-> FALSE, err |-> e] :
        e \in {"NotFound", "PermissionDenied"}}
    \cup {[started |-> TRUE, code |-> c, signal |-> FALSE, err |-> "none"] :
            c \in {0, 1, 2}}
    \cup {[started |-> TRUE, code |-> 0, signal |-> TRUE, err |-> "none"]}

\* ExitStatus::success
StatusSuccess(status) == ~status.signal /\ status.code = 0

\* ExitStatus::code().unwrap_or(-1)
StatusCodeOrMinusOne(status) == IF status.signal THEN 0 - 1 ELSE status.code

\* run_hook not looking at the exit code of a process that ran
StatusResult_IgnoreExitCode(status) ==
    IF status.started
    THEN [ok |-> TRUE]
    ELSE [ok |-> FALSE, error |-> "Spawn", cause |-> status.err]

\* the match on exit_status at the end of run_hook
StatusResult(status) ==
    IF status.started
    THEN IF StatusSuccess(status)
         THEN [ok |-> TRUE]
         ELSE [ok |-> FALSE, error |-> "ExitCode", code |-> StatusCodeOrMinusOne(status)]
    ELSE [ok |-> FALSE, error |-> "Spawn", cause |-> status.err]

\* the lines a githooks.toml of the model is made of
CfgLineInputs ==
    { <<"a", " ", "=", " ", "\"", "x", "\"">>,
      <<"a", " ", "=", " ", "\"", "\"">>,
      <<"a", " ", "=", " ", "\"", " ", "\"">>,
      <<"a", " ", "=">>,
      <<"b", " ", "=", " ", "'", "y", "'">>,
      <<"b", "=", "y", " ", "z">>,
      <<"#", " ", "c", "=", "x">>,
      <<>>,
      <<"j", "u", "n", "k">>,
      <<"=", "x">>,
      <<"a", " ", "b", " ", "=", " ", "\"", "x", "\"">> }

\* the texts of at most n lines, each line ended by a newline
RECURSIVE CfgTexts(_)
CfgTexts(n) ==
    IF n = 0 THEN {<<>>}
    ELSE {l \o <<"\n">> \o t : l \in CfgLineInputs, t \in CfgTexts(n - 1)}
         \cup CfgTexts(n - 1)

\* the hook names run_hook is called with
HookNameInputs == {<<"a">>, <<"b">>, <<"c">>}
\* the argument lists run_hook is called with
ArgsInputs == {<<>>, <<<<"m", "s", "g">>>>}

InitRunVars ==
    /\ platform \in {"windows", "unix"}
    /\ cwdConfig \in {NoFile} \cup {Some(t) : t \in CfgTexts(MaxCfgLines)}
    /\ runPc = "idle"
    /\ runName = <<>>
    /\ runArgs = <<>>
    /\ runLoad = NoResult
    /\ spawned = <<>>
    /\ runResult = NoResult

\* HookManager::run_hook: the configuration does not load
RunHookLoadFails(hook_name, args, readOk) ==
    LET config == load(cwdConfig, readOk)
    IN  /\ runPc = "idle"
        /\ ~config.ok
        /\ runLoad' = Some(config)
        /\ runResult' = Some([ok |-> FALSE, error |-> "Load", cause |-> config])
        /\ runPc' = "done"
        /\ runName' = hook_name
        /\ runArgs' = args
        /\ UNCHANGED <<platform, cwdConfig, spawned>>

\* HookManager::run_hook: the hook is not active
RunHookInactive(hook_name, args, readOk) ==
    LET config == load(cwdConfig, readOk)
    IN  /\ runPc = "idle"
        /\ config.ok
        /\ ~has_active_hook(config.hooks, hook_name)
        /\ runLoad' = Some(config)
        /\ runResult' = Some([ok |-> TRUE])
        /\ runPc' = "done"
        /\ runName' = hook_name
        /\ runArgs' = args
        /\ UNCHANGED <<platform, cwdConfig, spawned>>

\* HookManager::run_hook: the hook is active and its command is run
RunHookActive(hook_name, args, readOk, status) ==
    LET config == load(cwdConfig, readOk)
        command == get_hook_command(config.hooks, hook_name)
    IN  /\ runPc = "idle"
        /\ config.ok
        /\ has_active_hook(config.hooks, hook_name)
        /\ runLoad' = Some(config)
        /\ IF command = None
           THEN /\ runResult' = Some([ok |-> FALSE, error |-> "NotFound"])
                /\ spawned' = spawned
           ELSE /\ spawned' = Append(spawned, [command |-> ShellCommand(platform, command[1], args),
                                             status |-> status])
                /\ runResult' = Some(StatusResult(status))
        /\ runPc' = "done"
        /\ runName' = hook_name
        /\ runArgs' = args
        /\ UNCHANGED <<platform, cwdConfig>>

\* HookManager::run_hook
RunHook(hook_name, args, readOk, status) ==
    \/ RunHookLoadFails(hook_name, args, readOk)
    \/ RunHookInactive(hook_name, args, readOk)
    \/ RunHookActive(hook_name, args, readOk, status)

NextRun ==
    /\ runPc = "idle"
    /\ \E hook_name \in HookNameInputs, args \in ArgsInputs, readOk \in BOOLEAN,
       status \in StatusOutcomes :
        RunHook(hook_name, args, readOk, status)

-----------------------------------------------------------------------------
(* Commit message formatter: commit_msg.rs *)

UpperLetters == SubSeq(AsciiLow, 34, 59)
LowerLetters == SubSeq(AsciiHigh, 1, 26)

\* [A-Z]
UpperClass == {UpperLetters[i] : i \in 1..Len(UpperLetters)}
\* \d, on the characters of the model
DigitClass == {"0", "1", "2", "3", "4", "5", "6", "7", "8", "9"}
\* [A-Z0-9]
UpperOrDigitClass == UpperClass \cup DigitClass
IsUpper(c) == c \in UpperClass
\* . (any character but a line feed)
IsDot(c) == c # "\n"

\* char::to_uppercase
ToUpper(c) ==
    IF \E i \in 1..Len(LowerLetters) : LowerLetters[i] = c
    THEN UpperLetters[CHOOSE i \in 1..Len(LowerLetters) : LowerLetters[i] = c]
    ELSE c

\* char::to_lowercase
ToLower(c) ==
    IF IsUpper(c)
    THEN LowerLetters[CHOOSE i \in 1..Len(UpperLetters) : UpperLetters[i] = c]
    ELSE c

\* a greedy repetition: the index of the last character of the longest run of
\* characters of a class that starts at index i of s (i - 1 when there is none)
RECURSIVE RunEnd(_, _, _)
RunEnd(s, i, class) ==
    IF i <= Len(s) /\ s[i] \in class THEN RunEnd(s, i + 1, class) ELSE i - 1

\* the index of the last character of the longest run of characters that are
\* not white space starting at index i of s
RECURSIVE WordEnd(_, _)
WordEnd(s, i) ==
    IF i <= Len(s) /\ ~IsWhitespace(s[i]) THEN WordEnd(s, i + 1) ELSE i - 1

\* [A-Z][A-Z0-9]+-\d+ tried at index i of s: the index where the match ends,
\* 0 when there is no match at i. Each repetition is greedy; a shorter
\* [A-Z0-9]+ is followed by a character of the class, never by the hyphen.
TicketEndAt(s, i) ==
    IF i <= Len(s) /\ IsUpper(s[i])
    THEN LET j == RunEnd(s, i + 1, UpperOrDigitClass)
         IN  IF j >= i + 1 /\ j + 1 <= Len(s) /\ s[j + 1] = "-"
             THEN LET k == RunEnd(s, j + 2, DigitClass)
                  IN  IF k >= j + 2 THEN k ELSE 0
             ELSE 0
    ELSE 0

\* ticket_regex.find from index i on: the match that starts leftmost
RECURSIVE FindTicketFrom(_, _)
FindTicketFrom(s, i) ==
    IF i > Len(s) THEN None
    ELSE IF TicketEndAt(s, i) # 0 THEN Some(SubSeq(s, i, TicketEndAt(s, i)))
    ELSE FindTicketFrom(s, i + 1)

\* a search that tries the pattern at the start of the text only
FindTicket_Anchored(s) ==
    IF TicketEndAt(s, 1) # 0 THEN Some(SubSeq(s, 1, TicketEndAt(s, 1))) ELSE None

\* ticket_regex.find(branch_name)
FindTicket(s) == FindTicketFrom(s, 1)

\* the alternatives of (?:feature/|bugfix/|hotfix/|fix/)? in the order the
\* regex tries them, the empty one last
CleanupPrefixes ==
    << <<"f","e","a","t","u","r","e","/">>, <<"b","u","g","f","i","x","/">>,
       <<"h","o","t","f","i","x","/">>, <<"f","i","x","/">>, <<>> >>

\* [A-Z][A-Z0-9]+-\d+(?:-(.+))?$ tried at index q of s: None when it does not
\* match, otherwise Some(group 1), group 1 being Some(description) or None.
\* A shorter \d+ is followed by a digit, never by the hyphen or the end.
CleanupRestAt(s, q) ==
    LET k == TicketEndAt(s, q)
    IN  IF k = 0 THEN None
        ELSE IF k + 2 <= Len(s) /\ s[k + 1] = "-"
                /\ \A x \in (k + 2)..Len(s) : IsDot(s[x])
        THEN Some(Some(SubSeq(s, k + 2, Len(s))))
        ELSE IF k = Len(s) THEN Some(None)
        ELSE None

\* branch_cleanup_regex.captures(branch_name), trying prefix alternative n on
RECURSIVE CleanupCapturesFrom(_, _)
CleanupCapturesFrom(s, n) ==
    IF n > Len(CleanupPrefixes) THEN None
    ELSE LET p == CleanupPrefixes[n]
             rest == IF StartsWith(s, p) THEN CleanupRestAt(s, Len(p) + 1) ELSE None
         IN  IF rest # None THEN rest ELSE CleanupCapturesFrom(s, n + 1)

\* branch_cleanup_regex.captures(branch_name)
CleanupCaptures(s) == CleanupCapturesFrom(s, 1)

\* str::split_whitespace from index i of s on
RECURSIVE SplitWhitespaceFrom(_, _)
SplitWhitespaceFrom(s, i) ==
    IF i > Len(s) THEN <<>>
    ELSE IF IsWhitespace(s[i]) THEN SplitWhitespaceFrom(s, i + 1)
    ELSE LET e == WordEnd(s, i)
         IN  <<SubSeq(s, i, e)>> \o SplitWhitespaceFrom(s, e + 1)

\* str::split_whitespace
SplitWhitespace(s) == SplitWhitespaceFrom(s, 1)

\* a closure that leaves the case of the rest of the word alone
TitleWord_KeepCase(word) ==
    IF word = <<>> THEN <<>>
    ELSE <<ToUpper(word[1])>> \o SubSeq(word, 2, Len(word))

\* the closure of to_title_case: first character upper case, the rest lower
TitleWord(word) ==
    IF word = <<>> THEN <<>>
    ELSE <<ToUpper(word[1])>> \o [i \in 1..(Len(word) - 1) |-> ToLower(word[i + 1])]

\* CommitMessageProcessor::to_title_case
to_title_case(s) ==
    LET words == SplitWhitespace(s)
    IN  Join([i \in 1..Len(words) |-> TitleWord(words[i])], <<" ">>)

\* CommitMessageProcessor::format_commit_message_from_branch
format_commit_message_from_branch(branch_name) ==
    LET ticket == FindTicket(branch_name)
    IN  IF ticket = None THEN None
        ELSE LET ticket_id == ticket[1]
                 caps == CleanupCaptures(branch_name)
                 description == IF caps # None /\ caps[1] # None THEN caps[1][1] ELSE <<>>
             IN  IF description = <<>>
                 THEN Some(ticket_id \o <<":", " ">>)
                 ELSE Some(ticket_id \o <<":", " ">>
                           \o to_title_case(Replace(Replace(description, <<"-">>, <<" ">>),
                                                    <<"_">>, <<" ">>)))

\* characters of the branch names made of arbitrary characters
BranchAlphabet == {"A", "1", "-", "a"}
\* characters of the text following a ticket
TailAlphabet == {"a", "B", "-", "_", "1"}
\* what the model puts in front of a ticket: the four known prefixes, none,
\* and one the cleanup pattern does not know
PrefixInputs ==
    {CleanupPrefixes[n] : n \in 1..Len(CleanupPrefixes)} \cup {<<"d","e","v","/">>}

\* the branch names format is called with
BranchInputs ==
    StringsUpTo(BranchAlphabet, MaxBranchLen)
    \cup {p \o <<"A", "B", "-", "1">> \o t :
            p \in PrefixInputs, t \in StringsUpTo(TailAlphabet, MaxTailLen)}

InitFormatVars ==
    /\ fmtPc = "idle"
    /\ fmtBranch \in BranchInputs
    /\ fmtOut = NoResult

\* a call of format_commit_message_from_branch
Format ==
    /\ fmtPc = "idle"
    /\ fmtOut' = Some(format_commit_message_from_branch(fmtBranch))
    /\ fmtPc' = "done"
    /\ UNCHANGED fmtBranch

NextFormat == Format

-----------------------------------------------------------------------------
(* Commit message file: process_commit_msg_file, commit_msg.rs *)

\* the filter taking a comment to be a line whose first non-blank character
\* is "#"
IsContentLine_TrimmedComment(line) ==
    Trim(line) # <<>> /\ ~StartsWith(Trim(line), <<"#">>)

\* the filter of process_commit_msg_file: a line that is not blank and does
\* not start with "#"
IsContentLine(line) == Trim(line) # <<>> /\ ~StartsWith(line, <<"#">>)

\* a test that never finds content in the message
HasContent_Never(current_msg) == FALSE

\* whether the message already has content (not just comments)
HasContent(current_msg) ==
    LET lines == Lines(current_msg)
    IN  \E i \in 1..Len(lines) : IsContentLine(lines[i])

\* CommitMessageProcessor::get_current_branch_name on what git gives
get_current_branch_name(head) ==
    IF head.outcome = "ok" THEN [ok |-> TRUE, branch |-> Trim(head.stdout)]
    ELSE [ok |-> FALSE, error |-> "GitQuery", cause |-> head.outcome]

\* what git can give: the branch name on a line, or a failure (git cannot be
\* executed, it exits with a failure status, its output is not UTF-8)
GitHeadInputs ==
    {[outcome |-> "ok", stdout |-> b \o <<"\n">>] :
        b \in { <<"m","a","i","n">>,
                <<"A","B","-","1","2">>,
                <<"f","i","x","/","A","B","-","1","-","a","d","d","_","x">>,
                <<"d","e","v","/","C","D","-","7","-","y">> }}
    \cup {[outcome |-> o, stdout |-> <<>>] :
            o \in {"exec_failed", "exit_failure", "invalid_utf8"}}

\* characters of the commit message file at the start
MsgAlphabet == {"#", "m", " ", "\n"}

InitMsgVars ==
    /\ msgText \in StringsUpTo(MsgAlphabet, MaxMsgLen)
    /\ msgAccess \in [read : BOOLEAN, write : BOOLEAN]
    /\ gitHead \in GitHeadInputs
    /\ amCalls = 0
    /\ amPrev = <<>>
    /\ amHead = gitHead
    /\ amQueried = FALSE
    /\ amWrote = FALSE
    /\ amResult = NoResult

\* the current branch changes, or git stops or starts working
Checkout(head) ==
    /\ amCalls < MaxCalls
    /\ head # gitHead
    /\ gitHead' = head
    /\ UNCHANGED <<msgText, msgAccess, amCalls, amPrev, amHead, amQueried, amWrote, amResult>>

\* the generated message replacing the content of the file
NewContent_Overwrite(formatted_msg, current_msg) ==
    formatted_msg \o <<"\n", "\n">>

\* format!("{}\n\n{}", formatted_msg, current_msg)
NewContent(formatted_msg, current_msg) ==
    formatted_msg \o <<"\n", "\n">> \o current_msg

\* what process_commit_msg_file does to a file with content current_msg:
\* the new content, the result, and whether git was asked and the file written
ProcessCommitMsg(current_msg, access, head) ==
    IF ~access.read
    THEN [text |-> current_msg, queried |-> FALSE, wrote |-> FALSE,
          result |-> [ok |-> FALSE, error |-> "Read"]]
    ELSE IF HasContent(current_msg)
    THEN [text |-> current_msg, queried |-> FALSE, wrote |-> FALSE,
          result |-> [ok |-> TRUE]]
    ELSE LET branch_name == get_current_branch_name(head)
         IN  IF ~branch_name.ok
             THEN [text |-> current_msg, queried |-> TRUE, wrote |-> FALSE,
                   result |-> branch_name]
             ELSE LET formatted_msg == format_commit_message_from_branch(branch_name.branch)
                  IN  IF formatted_msg = None
                      THEN [text |-> current_msg, queried |-> TRUE, wrote |-> FALSE,
                            result |-> [ok |-> TRUE]]
                      ELSE IF ~access.write
                      THEN [text |-> current_msg, queried |-> TRUE, wrote |-> FALSE,
                            result |-> [ok |-> FALSE, error |-> "Write"]]
                      ELSE [text |-> NewContent(formatted_msg[1], current_msg),
                            queried |-> TRUE, wrote |-> TRUE,
                            result |-> [ok |-> TRUE]]

\* HookManager::prepare_commit_msg, which delegates to
\* CommitMessageProcessor::process_commit_msg_file
PrepareCommitMsg ==
    LET done == ProcessCommitMsg(msgText, msgAccess, gitHead)
    IN  /\ amCalls < MaxCalls
        /\ amCalls' = amCalls + 1
        /\ amPrev' = msgText
        /\ amHead' = gitHead
        /\ msgText' = done.text
        /\ amQueried' = done.queried
        /\ amWrote' = done.wrote
        /\ amResult' = Some(done.result)
        /\ UNCHANGED <<msgAccess, gitHead>>

NextMsg ==
    \/ /\ amCalls < MaxCalls
       /\ \E head \in GitHeadInputs : Checkout(head)
    \/ PrepareCommitMsg

-----------------------------------------------------------------------------
(* Repository locator: git_hooks.rs *)

\* the entry whose presence makes a directory a repository
DotGit == <<".", "g", "i", "t">>

\* the names the entries of the model have: .git, a hidden name and a plain one
NameInputs == {DotGit, <<".", "h">>, <<"a">>}

\* the path searched, as a path relative to itself
Root == <<>>

\* Path::is_dir: a directory, one that can be listed ("dir") or one that
\* cannot ("locked": no permission to read it)
IsDir(tree, path) == path \in DOMAIN tree /\ tree[path] \in {"dir", "locked"}

\* is_git_repository: <path>/.git exists, as a file or as a directory
is_git_repository(tree, path) == Append(path, DotGit) \in DOMAIN tree

\* the name of an entry starts with "."
IsHiddenName(name) == StartsWith(name, <<".">>)

\* fs::read_dir: the entries of dir, in the order the system lists them. The
\* order is the system's: order is a list of all names, and the entries come
\* in the order their names have in it.
ReadDir(tree, dir, order) ==
    LET present == {i \in 1..Len(order) : Append(dir, order[i]) \in DOMAIN tree}
        nth[n \in 0..Cardinality(present)] ==
            IF n = 0 THEN <<>>
            ELSE LET rest == {i \in present :
                                Cardinality({j \in present : j < i}) = n - 1}
                 IN  Append(nth[n - 1], Append(dir, order[CHOOSE i \in rest : TRUE]))
    IN  nth[Cardinality(present)]

\* visit_dirs: whether it returned Ok, the repositories it pushed, in order,
\* and the directory fs::read_dir failed on when it returned Err
RECURSIVE visit_dirs(_, _, _)

\* what a step of the walk that pushes the repositories pushed gives
Pushed(pushed) == [ok |-> TRUE, repos |-> pushed, failed |-> None]

\* the body of the loop descending into every directory that is not hidden,
\* a repository or not
VisitEntry_NoPrune(tree, path, order) ==
    LET self == IF IsDir(tree, path) /\ is_git_repository(tree, path)
                THEN <<path>> ELSE <<>>
        below == IF IsDir(tree, path) /\ ~IsHiddenName(path[Len(path)])
                 THEN visit_dirs(tree, path, order)
                 ELSE Pushed(<<>>)
    IN  [ok |-> below.ok, repos |-> self \o below.repos, failed |-> below.failed]

\* the body of the loop descending into hidden directories too
VisitEntry_DescendHidden(tree, path, order) ==
    IF IsDir(tree, path) /\ is_git_repository(tree, path)
    THEN Pushed(<<path>>)
    ELSE IF IsDir(tree, path)
    THEN visit_dirs(tree, path, order)
    ELSE Pushed(<<>>)

\* the body of the loop of visit_dirs, for the entry at path
VisitEntry(tree, path, order) ==
    IF IsDir(tree, path) /\ is_git_repository(tree, path)
    THEN Pushed(<<path>>)
    ELSE IF IsDir(tree, path) /\ ~IsHiddenName(path[Len(path)])
    THEN visit_dirs(tree, path, order)
    ELSE Pushed(<<>>)

\* the loop of visit_dirs over the entries from the n-th on: an Err of the
\* recursive call ends it ("?")
RECURSIVE VisitEntries(_, _, _, _)
VisitEntries(tree, entries, n, order) ==
    IF n > Len(entries) THEN Pushed(<<>>)
    ELSE LET one == VisitEntry(tree, entries[n], order)
         IN  IF ~one.ok THEN one
             ELSE LET rest == VisitEntries(tree, entries, n + 1, order)
                  IN  [ok |-> rest.ok, repos |-> one.repos \o rest.repos,
                       failed |-> rest.failed]

visit_dirs(tree, dir, order) ==
    IF ~IsDir(tree, dir) THEN Pushed(<<>>)
    ELSE IF tree[dir] = "locked"
    THEN [ok |-> FALSE, repos |-> <<>>, failed |-> Some(dir)]
    ELSE VisitEntries(tree, ReadDir(tree, dir, order), 1, order)

\* a search that returns what it has found when a directory cannot be listed
find_git_repositories_PartialOnError(tree, path, order) ==
    [ok |-> TRUE,
     repos |-> (IF is_git_repository(tree, path) THEN <<path>> ELSE <<>>)
               \o visit_dirs(tree, path, order).repos]

\* find_git_repositories: Ok(repos), or the Err of visit_dirs, the vector of
\* the repositories found so far being dropped
find_git_repositories(tree, path, order) ==
    LET first == IF is_git_repository(tree, path) THEN <<path>> ELSE <<>>
        walked == visit_dirs(tree, path, order)
    IN  IF walked.ok
        THEN [ok |-> TRUE, repos |-> first \o walked.repos]
        ELSE [ok |-> FALSE, error |-> "ReadDir", dir |-> walked.failed[1]]

\* the orders in which the system may list names
ListingOrders ==
    {o \in [1..Cardinality(NameInputs) -> NameInputs] :
        \A i, j \in 1..Cardinality(NameInputs) : i # j => o[i] # o[j]}

InitLocatorVars ==
    /\ fs \in {[p \in {Root} |-> "dir"], [p \in {Root} |-> "file"]}
    /\ locPc = "build"
    /\ locRepos = NoResult

\* a directory or a file is created in a directory of the tree
CreateEntry(parent, name, kind) ==
    /\ locPc = "build"
    /\ Cardinality(DOMAIN fs) - 1 < MaxEntries
    /\ IsDir(fs, parent)
    /\ Append(parent, name) \notin DOMAIN fs
    /\ fs' = [p \in DOMAIN fs \cup {Append(parent, name)} |->
                IF p \in DOMAIN fs THEN fs[p] ELSE kind]
    /\ UNCHANGED <<locPc, locRepos>>

\* a call of find_git_repositories on the root
FindRepositories(order) ==
    /\ locPc = "build"
    /\ locRepos' = Some(find_git_repositories(fs, Root, order))
    /\ locPc' = "found"
    /\ UNCHANGED fs

NextLocator ==
    \/ /\ locPc = "build"
       /\ \E parent \in DOMAIN fs, name \in NameInputs, kind \in {"dir", "file"} :
            CreateEntry(parent, name, kind)
    \/ /\ locPc = "build"
       /\ \E order \in ListingOrders : FindRepositories(order)

-----------------------------------------------------------------------------
(* Hook catalog: git_hooks.rs. A hook kind is a record: the variant of the  *)
(* enum GitHook and, for Custom, the name it carries.                       *)

\* the file names of the variants that are not Custom
FilenameTable ==
    "PreCommit" :> <<"p", "r", "e", "-", "c", "o", "m", "m", "i", "t">> @@
    "PrepareCommitMsg" :> <<"p", "r", "e", "p", "a", "r", "e", "-", "c", "o", "m", "m", "i", "t",
      "-", "m", "s", "g">> @@
    "CommitMsg" :> <<"c", "o", "m", "m", "i", "t", "-", "m", "s", "g">> @@
    "PostCommit" :> <<"p", "o", "s", "t", "-", "c", "o", "m", "m", "i", "t">> @@
    "PrePush" :> <<"p", "r", "e", "-", "p", "u", "s", "h">> @@
    "PostReceive" :> <<"p", "o", "s", "t", "-", "r", "e", "c", "e", "i", "v", "e">> @@
    "PreReceive" :> <<"p", "r", "e", "-", "r", "e", "c", "e", "i", "v", "e">> @@
    "Update" :> <<"u", "p", "d", "a", "t", "e">>

\* a value of the enum GitHook
Kind(variant) == [variant |-> variant, name |-> <<>>]
Custom(name) == [variant |-> "Custom", name |-> name]

\* GitHook::to_filename
to_filename(hook) ==
    IF hook.variant = "Custom" THEN hook.name ELSE FilenameTable[hook.variant]

\* GitHook::generate_script_content
generate_script_content(hook) ==
    IF hook.variant = "PrepareCommitMsg"
    THEN <<"#", "!", "/", "b", "i", "n", "/", "s", "h", "\n", "h", "o", "o", "k",
               "m", "a", "s", "t", "e", "r", " ", "p", "r", "e", "p", "a", "r",
               "e", "-", "c", "o", "m", "m", "i", "t", "-", "m", "s", "g", " ",
               "\"", "$", "@", "\"", "\n">>
    ELSE <<"#", "!", "/", "b", "i", "n", "/", "s", "h", "\n", "h", "o", "o", "k",
               "m", "a", "s", "t", "e", "r", " ", "r", "u", "n", " ">>
         \o to_filename(hook) \o <<" ", "\"", "$", "@", "\"", "\n">>

\* GitHook::standard_hooks
standard_hooks ==
    <<Kind("PreCommit"), Kind("PrepareCommitMsg"), Kind("CommitMsg"),
      Kind("PostCommit"), Kind("PrePush")>>

(* A repository directory is a record:                                      *)
(*   git      ".git" is "absent", a "dir" or a "file" (a worktree)          *)
(*   writable whether entries can be created in the directory itself        *)
(*   hooks    ".git/hooks" is "absent", a "dir", a directory in which no    *)
(*            entry can be created ("rodir"), or a "file"                   *)
(*   files    the entries of .git/hooks: name -> entry                      *)
(*   toml     the text of githooks.toml in the directory, or NoFile         *)
(* An entry has a kind ("file" or "dir"), a content, a mode (three octal    *)
(* digits) and is owned by the user or not.                                 *)

\* the mode of a file created by fs::write under the usual umask
DefaultMode == <<6, 4, 4>>
\* 0o755
ExecutableMode == <<7, 5, 5>>

\* whether the user may open the entry for writing
CanWrite(e) ==
    IF e.owned THEN e.mode[1] \in {2, 3, 6, 7} ELSE e.mode[3] \in {2, 3, 6, 7}

\* Path::exists on <repo>/.git/hooks
HooksDirExists(repo) == repo.hooks # "absent"

\* fs::create_dir_all(<repo>/.git/hooks): it fails when .git is a file, or
\* when .git has to be created and the directory does not allow it
CreateHooksDir(repo) ==
    IF repo.git = "file" \/ (repo.git = "absent" /\ ~repo.writable)
    THEN [ok |-> FALSE, error |-> "CreateDir", repo |-> repo]
    ELSE [ok |-> TRUE, error |-> "none",
          repo |-> [repo EXCEPT !.git = "dir", !.hooks = "dir"]]

\* fs::write(<repo>/.git/hooks/<name>, content): the file is created, or
\* truncated and rewritten with its mode and owner kept
WriteHookFile(repo, name, content) ==
    IF repo.hooks \in {"absent", "file"}
    THEN [ok |-> FALSE, error |-> "Write", repo |-> repo]
    ELSE IF name \in DOMAIN repo.files
    THEN IF repo.files[name].kind = "dir" \/ ~CanWrite(repo.files[name])
         THEN [ok |-> FALSE, error |-> "Write", repo |-> repo]
         ELSE [ok |-> TRUE, error |-> "none",
               repo |-> [repo EXCEPT !.files[name].content = content]]
    ELSE IF repo.hooks = "rodir"
    THEN [ok |-> FALSE, error |-> "Write", repo |-> repo]
    ELSE [ok |-> TRUE, error |-> "none",
          repo |-> [repo EXCEPT !.files =
                        [n \in DOMAIN repo.files \cup {name} |->
                            IF n = name
                            THEN [kind |-> "file", content |-> content,
                                  mode |-> DefaultMode, owned |-> TRUE]
                            ELSE repo.files[n]]]]

\* the #[cfg(unix)] block of install_to_repo: mode 0o755, which only the
\* owner of the file may set; nothing on other targets
MakeExecutable(target, repo, name) ==
    IF target # "unix" THEN [ok |-> TRUE, error |-> "none", repo |-> repo]
    ELSE IF ~repo.files[name].owned
    THEN [ok |-> FALSE, error |-> "SetPermissions", repo |-> repo]
    ELSE [ok |-> TRUE, error |-> "none",
          repo |-> [repo EXCEPT !.files[name].mode = ExecutableMode]]

\* an installation that keeps a hook file that is already there
install_to_repo_KeepExisting(target, repo, hook) ==
    LET made == IF HooksDirExists(repo)
                THEN [ok |-> TRUE, error |-> "none", repo |-> repo]
                ELSE CreateHooksDir(repo)
    IN  IF ~made.ok THEN made
        ELSE IF to_filename(hook) \in DOMAIN made.repo.files THEN made
        ELSE LET written == WriteHookFile(made.repo, to_filename(hook),
                                          generate_script_content(hook))
             IN  IF ~written.ok THEN written
                 ELSE MakeExecutable(target, written.repo, to_filename(hook))

\* GitHook::install_to_repo: what it returns and the repository it leaves
install_to_repo(target, repo, hook) ==
    LET made == IF HooksDirExists(repo)
                THEN [ok |-> TRUE, error |-> "none", repo |-> repo]
                ELSE CreateHooksDir(repo)
    IN  IF ~made.ok THEN made
        ELSE LET written == WriteHookFile(made.repo, to_filename(hook),
                                          generate_script_content(hook))
             IN  IF ~written.ok THEN written
                 ELSE MakeExecutable(target, written.repo, to_filename(hook))

\* HookManager::install_hooks_to_repo from the n-th standard hook on: it stops
\* at the first hook that does not install
RECURSIVE InstallHooksFrom(_, _, _)
InstallHooksFrom(target, repo, n) ==
    IF n > Len(standard_hooks) THEN [ok |-> TRUE, error |-> "none", repo |-> repo]
    ELSE LET one == install_to_repo(target, repo, standard_hooks[n])
         IN  IF ~one.ok THEN one ELSE InstallHooksFrom(target, one.repo, n + 1)

\* HookManager::install_hooks_to_repo
install_hooks_to_repo(target, repo) == InstallHooksFrom(target, repo, 1)

\* an initialisation that does not look for an existing githooks.toml
init_repository_Overwrite(target, dir) ==
    IF ~dir.writable
    THEN [ok |-> FALSE, error |-> "SaveConfig", repo |-> dir]
    ELSE LET saved == [dir EXCEPT !.toml = Some(to_toml_string(SampleConfig))]
         IN  IF saved.git # "absent"
             THEN install_hooks_to_repo(target, saved)
             ELSE [ok |-> TRUE, error |-> "none", repo |-> saved]

\* HookManager::init_repository: what it returns and the directory it leaves
init_repository(target, dir) ==
    IF dir.toml # NoFile
    THEN [ok |-> TRUE, error |-> "none", repo |-> dir]
    ELSE IF ~dir.writable
    THEN [ok |-> FALSE, error |-> "SaveConfig", repo |-> dir]
    ELSE LET saved == [dir EXCEPT !.toml = Some(to_toml_string(SampleConfig))]
         IN  IF saved.git # "absent"
             THEN install_hooks_to_repo(target, saved)
             ELSE [ok |-> TRUE, error |-> "none", repo |-> saved]

-----------------------------------------------------------------------------
(* One working directory as a state machine: hooks are installed into it   *)
(* one by one and hookmaster init is run in it, in any order.              *)

\* the hooks install_to_repo is called with
HookInputs ==
    {Kind("PreCommit"), Kind("PrepareCommitMsg"), Kind("CommitMsg"), Kind("Update"),
     Custom(<<"x">>)}

\* a hook script somebody wrote by hand
OldScript == <<"#", "!", "/", "b", "i", "n", "/", "s", "h", "\n", "m", "a", "k", "e", "\n">>

\* what the model finds at .git/hooks/pre-commit: a hand-written script that
\* is or is not executable, one that cannot be written, one of another user
\* that everybody can write, the script hookmaster installs, or a directory
PreCommitInputs ==
    { [kind |-> "file", content |-> OldScript, mode |-> DefaultMode, owned |-> TRUE],
      [kind |-> "file", content |-> OldScript, mode |-> ExecutableMode, owned |-> TRUE],
      [kind |-> "file", content |-> OldScript, mode |-> <<4, 4, 4>>, owned |-> TRUE],
      [kind |-> "file", content |-> OldScript, mode |-> <<6, 6, 6>>, owned |-> FALSE],
      [kind |-> "file", content |-> generate_script_content(Kind("PreCommit")),
       mode |-> ExecutableMode, owned |-> TRUE],
      [kind |-> "dir", content |-> <<>>, mode |-> ExecutableMode, owned |-> TRUE] }

\* the entries .git/hooks starts with: pre-commit as above or absent,
\* commit-msg a directory or absent, update a hand-written script or absent
FilesInputs ==
    LET pre == to_filename(Kind("PreCommit"))
        msg == to_filename(Kind("CommitMsg"))
        upd == to_filename(Kind("Update"))
    IN  {[n \in names |->
            IF n = pre THEN e
            ELSE IF n = msg
            THEN [kind |-> "dir", content |-> <<>>, mode |-> ExecutableMode, owned |-> TRUE]
            ELSE [kind |-> "file", content |-> OldScript, mode |-> ExecutableMode,
                  owned |-> TRUE]] :
            names \in {ns \in SUBSET {pre, msg, upd} : TRUE}, e \in PreCommitInputs}

\* the directories the model starts with
RepoInputs ==
    {[git |-> g, writable |-> w, hooks |-> h, files |-> f, toml |-> t] :
        g \in {"absent", "dir", "file"}, w \in BOOLEAN,
        h \in {"absent", "dir", "rodir", "file"},
        f \in FilesInputs,
        t \in {NoFile, Some(to_toml_string(SampleConfig)),
               Some(<<"a", " ", "=", " ", "x", "\n">>)}}

\* .git/hooks exists only in a directory .git, and has entries only when it
\* is a directory
WellFormedRepo(r) ==
    /\ r.hooks # "absent" => r.git = "dir"
    /\ r.hooks \in {"absent", "file"} => DOMAIN r.files = {}

InitRepoVars ==
    /\ repoTarget \in {"unix", "windows"}
    /\ repoDir \in {r \in RepoInputs : WellFormedRepo(r)}
    /\ repoBefore = repoDir
    /\ repoLog = <<>>

\* a call of GitHook::install_to_repo on the directory
InstallToRepo(hook) ==
    LET done == install_to_repo(repoTarget, repoDir, hook)
    IN  /\ Len(repoLog) < MaxOps
        /\ repoDir' = done.repo
        /\ repoBefore' = repoDir
        /\ repoLog' = Append(repoLog, [op |-> "install", hook |-> hook,
                                       ok |-> done.ok, error |-> done.error])
        /\ UNCHANGED repoTarget

\* hookmaster init in the directory
InitRepository ==
    LET done == init_repository(repoTarget, repoDir)
    IN  /\ Len(repoLog) < MaxOps
        /\ repoDir' = done.repo
        /\ repoBefore' = repoDir
        /\ repoLog' = Append(repoLog, [op |-> "init", hook |-> Kind("none"),
                                       ok |-> done.ok, error |-> done.error])
        /\ UNCHANGED repoTarget

NextRepo ==
    \/ /\ Len(repoLog) < MaxOps
       /\ \E hook \in HookInputs : InstallToRepo(hook)
    \/ InitRepository

-----------------------------------------------------------------------------
(* hookmaster add <path>: hook_manager.rs, add_hooks_to_path *)

\* the loop of add_hooks_to_path that continues after a repository failed
InstallAllFrom_KeepGoing(target, dirs, repos, n) ==
    LET step[i \in n..(Len(repos) + 1)] ==
            IF i > Len(repos) THEN [ok |-> TRUE, error |-> "none", dirs |-> dirs, log |-> <<>>]
            ELSE LET rest == step[i + 1]
                     one == install_hooks_to_repo(target, rest.dirs[repos[i]])
                 IN  [ok |-> one.ok /\ rest.ok,
                      error |-> IF one.ok THEN rest.error ELSE one.error,
                      dirs |-> [rest.dirs EXCEPT ![repos[i]] = one.repo],
                      log |-> <<[repo |-> repos[i], ok |-> one.ok]>> \o rest.log]
    IN  step[n]

\* the loop of add_hooks_to_path over the repositories from the n-th on: it
\* ends at the first repository install_hooks_to_repo fails on ("?")
RECURSIVE InstallAllFrom(_, _, _, _)
InstallAllFrom(target, dirs, repos, n) ==
    IF n > Len(repos) THEN [ok |-> TRUE, error |-> "none", dirs |-> dirs, log |-> <<>>]
    ELSE LET one == install_hooks_to_repo(target, dirs[repos[n]])
             after == [dirs EXCEPT ![repos[n]] = one.repo]
             entry == [repo |-> repos[n], ok |-> one.ok]
         IN  IF ~one.ok
             THEN [ok |-> FALSE, error |-> one.error, dirs |-> after, log |-> <<entry>>]
             ELSE LET rest == InstallAllFrom(target, after, repos, n + 1)
                  IN  [ok |-> rest.ok, error |-> rest.error, dirs |-> rest.dirs,
                       log |-> <<entry>> \o rest.log]

\* HookManager::add_hooks_to_path: what it returns, the directories it leaves,
\* what the search gave and the repositories it installed into
add_hooks_to_path(target, tree, dirs, path, order) ==
    LET repositories == find_git_repositories(tree, path, order)
    IN  IF ~repositories.ok
        THEN [ok |-> FALSE, error |-> "FindRepositories", dirs |-> dirs, log |-> <<>>,
              found |-> repositories]
        ELSE IF repositories.repos = <<>>
        THEN [ok |-> TRUE, error |-> "none", dirs |-> dirs, log |-> <<>>,
              found |-> repositories]
        ELSE LET done == InstallAllFrom(target, dirs, repositories.repos, 1)
             IN  [ok |-> done.ok, error |-> done.error, dirs |-> done.dirs,
                  log |-> done.log, found |-> repositories]

\* the plain names of the directories of the trees of the model
TreeNames == {<<"a">>, <<"b">>}

\* what a directory of the tree may be: absent, a file, a directory or a
\* directory that cannot be listed; and what its .git may be
DirShapes ==
    {[kind |-> k, git |-> g] :
        k \in {"absent", "file", "dir", "locked"}, g \in {"absent", "dir", "file"}}
    \ {[kind |-> k, git |-> g] : k \in {"absent", "file"}, g \in {"dir", "file"}}

\* the tree with the root and the directories a and b of the given shapes
TreeOf(root, a, b) ==
    LET shape == [p \in {Root, <<<<"a">>>>, <<<<"b">>>>} |->
                    IF p = Root THEN root ELSE IF p = <<<<"a">>>> THEN a ELSE b]
        paths == {p \in DOMAIN shape : shape[p].kind # "absent"}
                 \cup {Append(p, DotGit) : p \in {q \in DOMAIN shape : shape[q].git # "absent"}}
    IN  [p \in paths |->
            IF p \in DOMAIN shape THEN shape[p].kind
            ELSE shape[SubSeq(p, 1, Len(p) - 1)].git]

\* the trees add_hooks_to_path is called on
TreeInputs ==
    {TreeOf(root, a, b) :
        root \in {sh \in DirShapes : sh.kind \in {"dir", "locked"}},
        a \in DirShapes, b \in DirShapes}

\* what a directory holding .git may start with: nothing under .git, a
\* hand-written pre-commit, or a directory in the place of commit-msg
RepoShapes(git) ==
    LET none == [n \in {} |-> <<>>]
        old == [n \in {to_filename(Kind("PreCommit"))} |->
                    [kind |-> "file", content |-> OldScript, mode |-> DefaultMode,
                     owned |-> TRUE]]
        blocked == [n \in {to_filename(Kind("CommitMsg"))} |->
                        [kind |-> "dir", content |-> <<>>, mode |-> ExecutableMode,
                         owned |-> TRUE]]
    IN  IF git = "file"
        THEN {[git |-> git, writable |-> TRUE, hooks |-> "absent", files |-> none,
               toml |-> NoFile]}
        ELSE {[git |-> git, writable |-> TRUE, hooks |-> h, files |-> f, toml |-> NoFile] :
                h \in {"absent"}, f \in {none}}
             \cup {[git |-> git, writable |-> TRUE, hooks |-> "dir", files |-> f,
                    toml |-> NoFile] : f \in {old, blocked}}

\* the directories of tree that hold .git
GitDirs(tree) == {p \in DOMAIN tree : IsDir(tree, p) /\ is_git_repository(tree, p)}

\* the orders in which the system may list the names of the trees
TreeOrders ==
    {o \in [1..3 -> TreeNames \cup {DotGit}] : \A i, j \in 1..3 : i # j => o[i] # o[j]}

InitAddVars ==
    /\ addTarget \in {"unix", "windows"}
    /\ addTree \in TreeInputs
    /\ addDirs \in {d \in [GitDirs(addTree) -> UNION {RepoShapes(g) : g \in {"dir", "file"}}] :
                        \A p \in GitDirs(addTree) : d[p].git = addTree[Append(p, DotGit)]}
    /\ addBefore = addDirs
    /\ addPc = "idle"
    /\ addFound = NoResult
    /\ addLog = <<>>
    /\ addResult = NoResult

\* hookmaster add on the root of the tree
AddHooksToPath(order) ==
    LET done == add_hooks_to_path(addTarget, addTree, addDirs, Root, order)
    IN  /\ addPc = "idle"
        /\ addDirs' = done.dirs
        /\ addBefore' = addDirs
        /\ addFound' = Some(done.found)
        /\ addLog' = done.log
        /\ addResult' = Some([ok |-> done.ok, error |-> done.error])
        /\ addPc' = "done"
        /\ UNCHANGED <<addTarget, addTree>>

NextAdd ==
    /\ addPc = "idle"
    /\ \E order \in TreeOrders : AddHooksToPath(order)

-----------------------------------------------------------------------------
(* Specifications: one per component, the other components at rest *)

vars == <<cfgVars, runVars, fmtVars, msgVars, locVars, repoVars, addVars>>

IdleConfig ==
    /\ cfgPc = "idle" /\ hooks = DefaultConfig /\ cfgFile = NoFile /\ loaded = NoResult

IdleRun ==
    /\ platform = "unix" /\ cwdConfig = NoFile /\ runPc = "off" /\ runName = <<>>
    /\ runArgs = <<>> /\ runLoad = NoResult /\ spawned = <<>> /\ runResult = NoResult

IdleFormat ==
    /\ fmtPc = "off" /\ fmtBranch = <<>> /\ fmtOut = NoResult

IdleMsg ==
    /\ msgText = <<>> /\ msgAccess = [read |-> FALSE, write |-> FALSE]
    /\ gitHead = [outcome |-> "off", stdout |-> <<>>] /\ amCalls = 0 - 1
    /\ amPrev = <<>> /\ amHead = gitHead /\ amQueried = FALSE /\ amWrote = FALSE
    /\ amResult = NoResult

IdleLocator ==
    /\ fs = [p \in {Root} |-> "dir"] /\ locPc = "off" /\ locRepos = NoResult

IdleRepo ==
    /\ repoTarget = "unix"
    /\ repoDir = [git |-> "absent", writable |-> FALSE, hooks |-> "absent",
               files |-> [n \in {} |-> <<>>], toml |-> NoFile]
    /\ repoBefore = repoDir /\ repoLog = <<>>

IdleAdd ==
    /\ addTarget = "unix" /\ addTree = [p \in {Root} |-> "dir"]
    /\ addDirs = [p \in {} |-> <<>>] /\ addBefore = addDirs /\ addPc = "off"
    /\ addFound = NoResult /\ addLog = <<>> /\ addResult = NoResult

InitConfig ==
    InitConfigVars /\ IdleRun /\ IdleFormat /\ IdleMsg /\ IdleLocator /\ IdleRepo /\ IdleAdd
SpecConfig ==
    InitConfig
    /\ [][NextConfig /\ UNCHANGED <<runVars, fmtVars, msgVars, locVars, repoVars, addVars>>]_vars

InitRun ==
    InitRunVars /\ IdleConfig /\ IdleFormat /\ IdleMsg /\ IdleLocator /\ IdleRepo /\ IdleAdd
SpecRun ==
    InitRun
    /\ [][NextRun /\ UNCHANGED <<cfgVars, fmtVars, msgVars, locVars, repoVars, addVars>>]_vars

InitFormat ==
    InitFormatVars /\ IdleConfig /\ IdleRun /\ IdleMsg /\ IdleLocator /\ IdleRepo /\ IdleAdd
SpecFormat ==
    InitFormat
    /\ [][NextFormat /\ UNCHANGED <<cfgVars, runVars, msgVars, locVars, repoVars, addVars>>]_vars

InitMsg ==
    InitMsgVars /\ IdleConfig /\ IdleRun /\ IdleFormat /\ IdleLocator /\ IdleRepo /\ IdleAdd
SpecMsg ==
    InitMsg
    /\ [][NextMsg /\ UNCHANGED <<cfgVars, runVars, fmtVars, locVars, repoVars, addVars>>]_vars

InitLocator ==
    InitLocatorVars /\ IdleConfig /\ IdleRun /\ IdleFormat /\ IdleMsg /\ IdleRepo /\ IdleAdd
SpecLocator ==
    InitLocator
    /\ [][NextLocator /\ UNCHANGED <<cfgVars, runVars, fmtVars, msgVars, repoVars, addVars>>]_vars

InitRepo ==
    InitRepoVars /\ IdleConfig /\ IdleRun /\ IdleFormat /\ IdleMsg /\ IdleLocator /\ IdleAdd
SpecRepo ==
    InitRepo
    /\ [][NextRepo /\ UNCHANGED <<cfgVars, runVars, fmtVars, msgVars, locVars, addVars>>]_vars

InitAdd ==
    InitAddVars /\ IdleConfig /\ IdleRun /\ IdleFormat /\ IdleMsg /\ IdleLocator /\ IdleRepo
SpecAdd ==
    InitAdd
    /\ [][NextAdd /\ UNCHANGED <<cfgVars, runVars, fmtVars, msgVars, locVars, repoVars>>]_vars

-----------------------------------------------------------------------------
(* Claims about the configuration store *)

\* a key the text format can carry: not empty, no whitespace, no "=", and not
\* starting with "#"
RepresentableKey(k) ==
    /\ k # <<>>
    /\ \A i \in 1..Len(k) : ~IsWhitespace(k[i]) /\ k[i] # "="
    /\ k[1] # "#"

\* C1 as stated: for every configuration whose keys contain no space,
\* parse(serialize(config)) succeeds and yields exactly the original mapping.
C1_RoundTripAnyKeyWithoutSpace ==
    (cfgPc = "loaded" /\ \A k \in DOMAIN hooks : ~ContainsChar(k, " "))
        => (loaded[1].ok /\ loaded[1].hooks = hooks)

\* C1 as amended: for every configuration whose keys are non-empty, contain no
\* whitespace and no "=" and do not start with "#", and whose values are
\* arbitrary printable strings, parse(serialize(config)) succeeds and yields
\* exactly the original mapping.
C1_RoundTrip ==
    (cfgPc = "loaded" /\ \A k \in DOMAIN hooks : RepresentableKey(k))
        => (loaded[1].ok /\ loaded[1].hooks = hooks)

\* a configuration with an inserted entry whose command holds a quote or a
\* backslash has been saved and loaded back
C1_Witness ==
    /\ cfgPc = "loaded"
    /\ \A k \in DOMAIN hooks : RepresentableKey(k)
    /\ Cardinality(DOMAIN hooks) = 4
    /\ \E k \in DOMAIN hooks :
          ContainsChar(hooks[k], "\"") /\ ContainsChar(hooks[k], "\\")

-----------------------------------------------------------------------------
(* Claims about run_hook *)

\* a command that is empty or all whitespace
Blank(cmd) == \A i \in 1..Len(cmd) : IsWhitespace(cmd[i])

\* the configuration run_hook loaded has no active hook of this name: the key
\* is absent or its command is blank
NoActiveHook(h, name) == name \notin DOMAIN h \/ Blank(h[name])

\* C2: run_named_hook returns success and spawns no process whenever the
\* loaded configuration has no active hook for the name: githooks.toml is
\* absent, or it parses and the name is not a key or its command is empty or
\* all whitespace; has_active_hook is false in exactly these cases.
C2_InactiveHookIsNoOp ==
    /\ (runPc = "done" /\ cwdConfig = NoFile)
        => (runLoad[1].ok /\ runLoad[1].hooks = DefaultConfig)
    /\ (runPc = "done" /\ runLoad[1].ok)
        => /\ has_active_hook(runLoad[1].hooks, runName)
                <=> ~NoActiveHook(runLoad[1].hooks, runName)
           /\ NoActiveHook(runLoad[1].hooks, runName)
                => (runResult = Some([ok |-> TRUE]) /\ spawned = <<>>)

\* run_hook returned for a hook whose configured command is only whitespace
C2_Witness ==
    /\ runPc = "done"
    /\ cwdConfig # NoFile
    /\ runLoad[1].ok
    /\ runName \in DOMAIN runLoad[1].hooks
    /\ runLoad[1].hooks[runName] # <<>>
    /\ Blank(runLoad[1].hooks[runName])
    /\ runResult = Some([ok |-> TRUE])

-----------------------------------------------------------------------------
(* Claims about format_commit_message_from_branch *)

\* t is a ticket: one upper-case letter, one or more upper-case letters or
\* digits, a hyphen, one or more digits
IsTicketToken(t) ==
    \E h \in 3..(Len(t) - 1) :
        /\ t[1] \in UpperClass
        /\ \A x \in 2..(h - 1) : t[x] \in UpperClass \cup DigitClass
        /\ t[h] = "-"
        /\ \A x \in (h + 1)..Len(t) : t[x] \in DigitClass

\* the pairs <<first, last>> of indices of the substrings of s that are tickets
TicketSpans(s) ==
    {span \in (1..Len(s)) \X (1..Len(s)) :
        span[1] <= span[2] /\ IsTicketToken(SubSeq(s, span[1], span[2]))}

\* the ticket of s that starts first, in its full length
LeftmostTicket(s) ==
    LET first == CHOOSE i \in {sp[1] : sp \in TicketSpans(s)} :
                    \A sp \in TicketSpans(s) : i <= sp[1]
        last == CHOOSE k \in {sp[2] : sp \in {x \in TicketSpans(s) : x[1] = first}} :
                    \A sp \in TicketSpans(s) : sp[1] = first => sp[2] <= k
    IN  SubSeq(s, first, last)

\* C9: format(branch) returns a value iff branch contains a substring matching
\* the ticket pattern; when it does, the result begins with the leftmost such
\* ticket, in its full length, immediately followed by ": ".
C9_TicketPrefix ==
    fmtPc = "done"
        => /\ (fmtOut[1] # None) <=> (TicketSpans(fmtBranch) # {})
           /\ TicketSpans(fmtBranch) # {}
                => StartsWith(fmtOut[1][1], LeftmostTicket(fmtBranch) \o <<":", " ">>)

\* format returned a value for a branch whose first ticket starts after an
\* upper-case letter and a hyphen that belong to no ticket
C9_Witness ==
    /\ fmtPc = "done"
    /\ fmtOut[1] # None
    /\ fmtBranch[1] = "A"
    /\ fmtBranch[2] = "-"
    /\ LeftmostTicket(fmtBranch) = SubSeq(fmtBranch, 3, Len(fmtBranch))

\* the description as the claim transforms it, character by character: a
\* hyphen, an underscore or white space separates words; the first character
\* of a word is upper case, the others lower case; one space between words
IsSeparator(c) == c \in {"-", "_"} \/ IsWhitespace(c)

RECURSIVE TitledFrom(_, _, _)
TitledFrom(d, i, started) ==
    IF i > Len(d) THEN <<>>
    ELSE IF IsSeparator(d[i]) THEN TitledFrom(d, i + 1, started)
    ELSE IF i = 1 \/ IsSeparator(d[i - 1])
         THEN (IF started THEN <<" ">> ELSE <<>>) \o <<ToUpper(d[i])>>
              \o TitledFrom(d, i + 1, TRUE)
         ELSE <<ToLower(d[i])>> \o TitledFrom(d, i + 1, TRUE)

Titled(d) == TitledFrom(d, 1, FALSE)

\* the ways to read branch as [feature/|bugfix/|hotfix/|fix/]<TICKET>-<description>
BranchForms(branch) ==
    {f \in [prefix : {<<"f","e","a","t","u","r","e","/">>, <<"b","u","g","f","i","x","/">>,
                      <<"h","o","t","f","i","x","/">>, <<"f","i","x","/">>, <<>>},
            ticketEnd : 1..Len(branch)] :
        /\ StartsWith(branch, f.prefix)
        /\ f.ticketEnd > Len(f.prefix)
        /\ IsTicketToken(SubSeq(branch, Len(f.prefix) + 1, f.ticketEnd))
        /\ f.ticketEnd + 2 <= Len(branch)
        /\ branch[f.ticketEnd + 1] = "-"}

-----------------------------------------------------------------------------
(* Claims about process_commit_msg_file *)

\* text holds a line that is not blank and does not start with "#": some
\* character that starts a line is not "#", and the line holds a character
\* that is not white space
HasRealLine(text) ==
    \E i \in 1..Len(text), j \in 1..Len(text) :
        /\ i = 1 \/ text[i - 1] = "\n"
        /\ text[i] # "#"
        /\ i <= j
        /\ \A x \in i..j : text[x] # "\n"
        /\ ~IsWhitespace(text[j])

\* C4: if the (readable) file holds at least one line that is non-blank and
\* does not start with "#", apply_to_file returns success, leaves the content
\* unchanged, writes nothing and does not ask git for the branch name (so a
\* failing branch lookup cannot make it fail), however often it is called.
C4_UserMessageRespected ==
    (amCalls > 0 /\ msgAccess.read /\ HasRealLine(amPrev))
        => /\ amResult = Some([ok |-> TRUE])
           /\ msgText = amPrev
           /\ ~amQueried
           /\ ~amWrote

\* the second call on a file holding a real line has returned success while
\* git cannot give the branch name
C4_Witness ==
    /\ amCalls >= 2
    /\ HasRealLine(amPrev)
    /\ msgAccess.read
    /\ amHead.outcome # "ok"
    /\ amResult = Some([ok |-> TRUE])

\* C5: when the (readable, writable) file has no non-blank non-comment line:
\* if format(branch) yields F the new content is exactly F, two newlines and
\* the complete previous content; if it yields nothing the file is not
\* written; if the branch lookup fails that failure is returned and the file
\* is left unchanged.
C5_PrependOrLeave ==
    (amCalls > 0 /\ msgAccess.read /\ ~HasRealLine(amPrev))
        => IF amHead.outcome # "ok"
           THEN /\ amResult = Some([ok |-> FALSE, error |-> "GitQuery",
                                    cause |-> amHead.outcome])
                /\ msgText = amPrev
                /\ ~amWrote
           ELSE LET F == format_commit_message_from_branch(Trim(amHead.stdout))
                IN  IF F = None
                    THEN amResult = Some([ok |-> TRUE]) /\ msgText = amPrev /\ ~amWrote
                    ELSE msgAccess.write
                            => /\ amResult = Some([ok |-> TRUE])
                               /\ amWrote
                               /\ msgText = F[1] \o <<"\n", "\n">> \o amPrev

\* a file holding only a comment line got the title of the branch in front
C5_Witness ==
    /\ amCalls = 1
    /\ amPrev = <<"#", "m", "\n">>
    /\ amWrote
    /\ msgText = <<"A","B","-","1",":"," ","A","d","d"," ","X","\n","\n","#","m","\n">>

-----------------------------------------------------------------------------
(* Claims about find_git_repositories *)

\* the paths find_git_repositories returned
Returned == {locRepos[1].repos[i] : i \in 1..Len(locRepos[1].repos)}

\* the directories of the tree that hold a .git entry
Repositories == {p \in DOMAIN fs : IsDir(fs, p) /\ is_git_repository(fs, p)}

\* the directories strictly between the directory top and the path below it
Between(top, path) ==
    {SubSeq(path, 1, n) : n \in (Len(top) + 1)..(Len(path) - 1)}

\* path lies strictly below the directory top
Below(top, path) ==
    Len(path) > Len(top) /\ SubSeq(path, 1, Len(top)) = top

C7_NoHiddenDirectoryReturned ==
    locPc = "found"
        => \A path \in Returned : path # Root => ~IsHiddenName(path[Len(path)])

\* C8: every repository that is reached from the root through directories
\* that are neither hidden nor repositories is returned, and no path returned
\* lies strictly inside a directory below the root whose name starts with ".".
C8_HiddenNeverDescended ==
    locPc = "found"
        => /\ \A repo \in Repositories :
                (/\ repo # Root => ~IsHiddenName(repo[Len(repo)])
                 /\ \A d \in Between(Root, repo) :
                        ~IsHiddenName(d[Len(d)]) /\ d \notin Repositories)
                    => repo \in Returned
           /\ \A path \in Returned :
                \A d \in Between(Root, path) : ~IsHiddenName(d[Len(d)])

\* a repository two levels down was found while a hidden directory holding a
\* repository was passed over
C8_Witness ==
    /\ locPc = "found"
    /\ <<<<"a">>, <<"a">>>> \in Repositories
    /\ <<<<"a">>, <<"a">>>> \in Returned
    /\ <<<<".", "h">>, <<"a">>>> \in Repositories
    /\ <<<<".", "h">>, <<"a">>>> \notin Returned

-----------------------------------------------------------------------------
(* Claims about parse_toml and about run_hook on a file that does not load *)

\* the text between the newlines of text, the newlines of the text counted
NumberedLines(text) == SplitChar(text, "\n")

\* a line that is neither blank nor a comment and that lacks "=" or whose key,
\* the trimmed text before the first "=", is empty or holds a space
MalformedLine(raw) ==
    LET l == Trim(raw)
    IN  /\ l # <<>>
        /\ l[1] # "#"
        /\ \/ \A i \in 1..Len(l) : l[i] # "="
           \/ \E e \in 1..Len(l) :
                /\ l[e] = "="
                /\ \A i \in 1..(e - 1) : l[i] # "="
                /\ LET key == Trim(SubSeq(l, 1, e - 1))
                   IN  key = <<>> \/ \E i \in 1..Len(key) : key[i] = " "

\* the 1-based number of the first malformed line of text, 0 when it has none
FirstMalformed(text) ==
    LET bad == {n \in 1..Len(NumberedLines(text)) : MalformedLine(NumberedLines(text)[n])}
    IN  IF bad = {} THEN 0 ELSE CHOOSE n \in bad : \A m \in bad : n <= m

\* run_hook has read the file githooks.toml
FileWasRead ==
    /\ runPc = "done"
    /\ cwdConfig # NoFile
    /\ runLoad[1].ok \/ runLoad[1].error # "Read"

\* C11: parse fails on the first line that is neither blank nor a comment and
\* lacks "=" or has an empty key or a key with a space; the error names the
\* 1-based number of that line among all lines and no configuration comes
\* back; every key of a configuration that was parsed is non-empty and holds
\* no space.
C11_MalformedLineRejected ==
    FileWasRead
        => LET r == runLoad[1]
               n == FirstMalformed(cwdConfig[1])
           IN  IF n = 0
               THEN /\ r.ok
                    /\ \A k \in DOMAIN r.hooks : k # <<>> /\ ~ContainsChar(k, " ")
               ELSE /\ ~r.ok
                    /\ r.error \in {"InvalidKey", "InvalidSyntax"}
                    /\ r.line = n
                    /\ "hooks" \notin DOMAIN r

\* a file whose second line, after a comment, lacks "=" was rejected with the
\* number 2
C11_Witness ==
    /\ FileWasRead
    /\ cwdConfig[1] = <<"#", " ", "c", "=", "x", "\n", "j", "u", "n", "k", "\n">>
    /\ ~runLoad[1].ok
    /\ runLoad[1].error = "InvalidSyntax"
    /\ runLoad[1].line = 2

\* C17: when githooks.toml exists and cannot be read or does not parse,
\* run_hook fails with that error whatever the hook name, defined by the file
\* or not, and starts no process: no command of a well-formed line of a
\* partly malformed file is run.
C17_UnloadableConfigRunsNothing ==
    (runPc = "done" /\ cwdConfig # NoFile
     /\ (~FileWasRead \/ FirstMalformed(cwdConfig[1]) # 0))
        => /\ spawned = <<>>
           /\ ~runResult[1].ok
           /\ runResult[1].error = "Load"
           /\ IF FileWasRead
              THEN /\ runResult[1].cause.error \in {"InvalidKey", "InvalidSyntax"}
                   /\ runResult[1].cause.line = FirstMalformed(cwdConfig[1])
              ELSE runResult[1].cause.error = "Read"

\* the hook a was asked for, the first line of the file gives it a command and
\* the second line is malformed: the call failed and nothing was started
C17_Witness ==
    /\ runPc = "done"
    /\ runName = <<"a">>
    /\ cwdConfig = Some(<<"a", " ", "=", " ", "\"", "x", "\"", "\n", "j", "u", "n", "k", "\n">>)
    /\ FileWasRead
    /\ spawned = <<>>
    /\ ~runResult[1].ok

-----------------------------------------------------------------------------
(* Claims about install_to_repo and init_repository in one directory *)

\* the last operation done on the directory, and the one before it
LastOp == repoLog[Len(repoLog)]
OpBeforeLast == repoLog[Len(repoLog) - 1]

\* the trampoline of a hook as the specification words it: a shell script of
\* two lines that calls hookmaster prepare-commit-msg "$@" for the hook
\* prepare-commit-msg and hookmaster run <file name> "$@" for any other
Trampoline(hook) ==
    <<"#", "!", "/", "b", "i", "n", "/", "s", "h", "\n">>
    \o <<"h", "o", "o", "k", "m", "a", "s", "t", "e", "r", " ">>
    \o (IF hook = Kind("PrepareCommitMsg")
        THEN <<>>
        ELSE <<"r", "u", "n", " ">>)
    \o to_filename(hook)
    \o <<" ", "\"", "$", "@", "\"", "\n">>

\* owner, group and others may execute a file of this mode
AllMayExecute(mode) == \A i \in 1..3 : mode[i] \in {1, 3, 5, 7}

\* C12: after install(kind, repo) succeeds .git/hooks is a directory, the file
\* .git/hooks/<canonical name> holds exactly the trampoline of the kind,
\* whatever it held before, and (on a target with permission bits) everybody
\* may execute it; no other entry of .git/hooks and nothing else in the
\* directory has changed; installing the same kind again changes nothing.
C12_InstallOverwrites ==
    /\ (Len(repoLog) >= 1 /\ LastOp.op = "install" /\ LastOp.ok)
        => LET name == to_filename(LastOp.hook)
           IN  /\ repoDir.git = "dir"
               /\ repoDir.hooks \in {"dir", "rodir"}
               /\ name \in DOMAIN repoDir.files
               /\ repoDir.files[name].kind = "file"
               /\ repoDir.files[name].content = Trampoline(LastOp.hook)
               /\ repoTarget = "unix" => AllMayExecute(repoDir.files[name].mode)
               /\ DOMAIN repoDir.files = DOMAIN repoBefore.files \cup {name}
               /\ \A other \in DOMAIN repoBefore.files \ {name} :
                    repoDir.files[other] = repoBefore.files[other]
               /\ repoDir.toml = repoBefore.toml
    /\ (Len(repoLog) >= 2 /\ LastOp.op = "install" /\ OpBeforeLast.op = "install"
        /\ OpBeforeLast.ok /\ LastOp.hook = OpBeforeLast.hook)
        => LastOp.ok /\ repoDir = repoBefore

\* pre-commit was a hand-written script that was not executable, next to a
\* hand-written update hook: the installation replaced it
C12_Witness ==
    /\ Len(repoLog) = 1
    /\ LastOp = [op |-> "install", hook |-> Kind("PreCommit"), ok |-> TRUE,
                 error |-> "none"]
    /\ repoTarget = "unix"
    /\ DOMAIN repoBefore.files = {to_filename(Kind("PreCommit")), to_filename(Kind("Update"))}
    /\ repoBefore.files[to_filename(Kind("PreCommit"))].content = OldScript
    /\ repoBefore.files[to_filename(Kind("PreCommit"))].mode = DefaultMode
    /\ repoDir.files[to_filename(Kind("PreCommit"))].mode = ExecutableMode

\* the five standard hooks, by their file names
StandardNames ==
    { <<"p","r","e","-","c","o","m","m","i","t">>,
      <<"p","r","e","p","a","r","e","-","c","o","m","m","i","t","-","m","s","g">>,
      <<"c","o","m","m","i","t","-","m","s","g">>,
      <<"p","o","s","t","-","c","o","m","m","i","t">>,
      <<"p","r","e","-","p","u","s","h">> }

\* the standard hook with the file name n
StandardHook(n) ==
    standard_hooks[CHOOSE i \in 1..Len(standard_hooks) : to_filename(standard_hooks[i]) = n]

\* the five standard hook scripts are installed in the directory r
HoldsStandardHooks(r) ==
    /\ r.hooks \in {"dir", "rodir"}
    /\ \A n \in StandardNames :
        /\ n \in DOMAIN r.files
        /\ r.files[n].kind = "file"
        /\ r.files[n].content = Trampoline(StandardHook(n))

\* text is the sample configuration: pre-commit and pre-push have a command,
\* commit-msg is there with an empty one, and there is nothing else
IsSampleText(text) ==
    LET parsed == parse_toml(text)
    IN  /\ parsed.ok
        /\ DOMAIN parsed.hooks =
            {<<"p","r","e","-","c","o","m","m","i","t">>, <<"p","r","e","-","p","u","s","h">>,
             <<"c","o","m","m","i","t","-","m","s","g">>}
        /\ Trim(parsed.hooks[<<"p","r","e","-","c","o","m","m","i","t">>]) # <<>>
        /\ Trim(parsed.hooks[<<"p","r","e","-","p","u","s","h">>]) # <<>>
        /\ parsed.hooks[<<"c","o","m","m","i","t","-","m","s","g">>] = <<>>

\* nothing in the directory r stands in the way of init: entries can be
\* created in it, .git is absent or a directory, .git/hooks is absent or a
\* directory in which entries can be created, and every entry named like a
\* standard hook is a file of the user that the user may write
NothingInTheWay(r) ==
    /\ r.writable
    /\ r.git \in {"absent", "dir"}
    /\ r.hooks \in {"absent", "dir"}
    /\ \A n \in StandardNames \cap DOMAIN r.files :
        /\ r.files[n].kind = "file"
        /\ r.files[n].owned
        /\ r.files[n].mode[1] \in {6, 7}

\* C14: when githooks.toml exists init succeeds and changes nothing, neither
\* that file nor anything under .git/hooks. Otherwise an init that succeeds
\* has written the sample configuration, and has installed the five standard
\* hooks if the directory holds .git and has touched nothing else if it does
\* not; and init does succeed, in a repository or not, when nothing in the
\* directory stands in its way.
C14_InitOnceThenNoOp ==
    (Len(repoLog) >= 1 /\ LastOp.op = "init")
        => IF repoBefore.toml # NoFile
           THEN LastOp.ok /\ repoDir = repoBefore
           ELSE /\ NothingInTheWay(repoBefore) => LastOp.ok
                /\ LastOp.ok
                    => /\ repoDir.toml # NoFile
                       /\ IsSampleText(repoDir.toml[1])
                       /\ IF repoBefore.git # "absent"
                          THEN HoldsStandardHooks(repoDir)
                          ELSE repoDir = [repoBefore EXCEPT !.toml = repoDir.toml]

\* init ran twice in a repository without githooks.toml: the first run wrote
\* the sample and installed the hooks, the second changed nothing
C14_Witness ==
    /\ Len(repoLog) = 2
    /\ OpBeforeLast.op = "init" /\ OpBeforeLast.ok
    /\ LastOp.op = "init" /\ LastOp.ok
    /\ repoDir = repoBefore
    /\ HoldsStandardHooks(repoDir)
    /\ IsSampleText(repoDir.toml[1])

\* C18: an init that fails leaves no githooks.toml behind (and the directory
\* as it was), so that a later init starts over and installs the hooks.
C18_FailedInitLeavesNoConfig ==
    (Len(repoLog) >= 1 /\ LastOp.op = "init" /\ ~LastOp.ok)
        => repoDir.toml = NoFile

-----------------------------------------------------------------------------
(* Claims about add_hooks_to_path *)

\* the repositories the search returned to add_hooks_to_path, in order
Discovered == addFound[1].repos

\* in the directory now, compared with the directory then, the standard hooks
\* were installed in list order up to the one that failed: the hooks before
\* the k-th hold their trampoline and the entries of the hooks after it are
\* as they were
InstalledUpTo(now, then, k) ==
    /\ \A i \in 1..(k - 1) :
        /\ to_filename(standard_hooks[i]) \in DOMAIN now.files
        /\ now.files[to_filename(standard_hooks[i])].content = Trampoline(standard_hooks[i])
    /\ \A i \in (k + 1)..Len(standard_hooks) :
        LET n == to_filename(standard_hooks[i])
        IN  IF n \in DOMAIN then.files
            THEN n \in DOMAIN now.files /\ now.files[n] = then.files[n]
            ELSE n \notin DOMAIN now.files

\* C13: when the search returns no repository add_hooks_to_path succeeds and
\* writes nothing. Otherwise it takes the repositories in the order the
\* search returned them and the five standard hooks in list order, stops at
\* the first installation that fails and returns that failure: then the
\* repositories before the failing one hold the five hooks, the failing one
\* holds those before the hook that failed, and every repository after it is
\* untouched. When it succeeds every repository found holds the five hooks.
C13_InstallInOrderStopAtFailure ==
    (addPc = "done" /\ addFound[1].ok)
        => IF Discovered = <<>>
           THEN addResult[1].ok /\ addDirs = addBefore /\ addLog = <<>>
           ELSE /\ Len(addLog) \in 1..Len(Discovered)
                /\ \A i \in 1..Len(addLog) : addLog[i].repo = Discovered[i]
                /\ \A i \in 1..(Len(addLog) - 1) : addLog[i].ok
                /\ \A i \in 1..(Len(addLog) - 1) : HoldsStandardHooks(addDirs[Discovered[i]])
                /\ IF addResult[1].ok
                   THEN /\ Len(addLog) = Len(Discovered)
                        /\ \A i \in 1..Len(Discovered) :
                            HoldsStandardHooks(addDirs[Discovered[i]])
                   ELSE /\ ~addLog[Len(addLog)].ok
                        /\ addResult[1].error \in {"CreateDir", "Write", "SetPermissions"}
                        /\ \E k \in 1..Len(standard_hooks) :
                            InstalledUpTo(addDirs[Discovered[Len(addLog)]],
                                          addBefore[Discovered[Len(addLog)]], k)
                        /\ \A i \in (Len(addLog) + 1)..Len(Discovered) :
                            addDirs[Discovered[i]] = addBefore[Discovered[i]]
                /\ \A p \in DOMAIN addDirs :
                    (\A i \in 1..Len(Discovered) : Discovered[i] # p)
                        => addDirs[p] = addBefore[p]

\* three repositories were found, the root first; the second one failed at
\* its third hook, after its first two hooks were installed, and the third
\* repository was not touched
C13_Witness ==
    /\ addPc = "done"
    /\ addFound[1].ok
    /\ Len(Discovered) = 3
    /\ Discovered[1] = Root
    /\ Len(addLog) = 2
    /\ ~addResult[1].ok
    /\ HoldsStandardHooks(addDirs[Root])
    /\ to_filename(Kind("PrepareCommitMsg")) \in DOMAIN addDirs[Discovered[2]].files
    /\ to_filename(Kind("PrePush")) \notin DOMAIN addDirs[Discovered[2]].files
    /\ addDirs[Discovered[3]] = addBefore[Discovered[3]]
    /\ addBefore[Discovered[3]].hooks = "absent"

\* the directories the search has to list: the root, and every directory
\* under it that is neither hidden nor a repository and lies in directories
\* that are neither
HasToList(tree) ==
    {d \in DOMAIN tree :
        /\ IsDir(tree, d)
        /\ \A n \in 1..Len(d) :
            /\ ~IsHiddenName(d[n])
            /\ ~is_git_repository(tree, SubSeq(d, 1, n))}

\* C15: find_git_repositories fails whenever a directory it has to list, the
\* root or one it descends into, cannot be listed; the failure carries no
\* list of repositories, add_hooks_to_path returns it, and nothing is
\* installed anywhere.
C15_ListingFailureAborts ==
    addPc = "done"
        => /\ ~addFound[1].ok <=> \E d \in HasToList(addTree) : addTree[d] = "locked"
           /\ ~addFound[1].ok
                => /\ "repos" \notin DOMAIN addFound[1]
                   /\ addFound[1].dir \in HasToList(addTree)
                   /\ addTree[addFound[1].dir] = "locked"
                   /\ ~addResult[1].ok
                   /\ addResult[1].error = "FindRepositories"
                   /\ addLog = <<>>
                   /\ addDirs = addBefore

\* the root and the directory a are repositories that could take the hooks,
\* the directory b cannot be listed: the search failed and nothing was
\* installed
C15_Witness ==
    /\ addPc = "done"
    /\ ~addFound[1].ok
    /\ addFound[1].dir = <<<<"b">>>>
    /\ {Root, <<<<"a">>>>} \subseteq DOMAIN addDirs
    /\ addDirs[Root].git = "dir" /\ addDirs[Root].hooks = "absent"
    /\ addDirs[<<<<"a">>>>].git = "dir" /\ addDirs[<<<<"a">>>>].hooks = "absent"
    /\ ~addResult[1].ok

-----------------------------------------------------------------------------
(* Claim about repeated runs of prepare-commit-msg on one file *)

\* the prefixes process_commit_msg_file can generate for the branches of the
\* model: the formatted message and two newlines
GeneratedPrefixes ==
    {format_commit_message_from_branch(Trim(h.stdout))[1] \o <<"\n", "\n">> :
        h \in {g \in GitHeadInputs :
                /\ g.outcome = "ok"
                /\ format_commit_message_from_branch(Trim(g.stdout)) # None}}

\* how many generated prefixes text starts with, one after the other
RECURSIVE PrefixCount(_)
PrefixCount(text) ==
    IF \E g \in GeneratedPrefixes : StartsWith(text, g)
    THEN LET g == CHOOSE x \in GeneratedPrefixes : StartsWith(text, x)
         IN  1 + PrefixCount(SubSeq(text, Len(g) + 1, Len(text)))
    ELSE 0

\* C16: a commit message file that starts without a real message holds at
\* most one generated "<TICKET>: ..." prefix after any number of runs of
\* prepare-commit-msg, whatever the branch is at each run: a run that finds a
\* prefix in the file writes nothing.
C16_AtMostOnePrefix ==
    /\ PrefixCount(msgText) <= 1
    /\ (amCalls > 0 /\ PrefixCount(amPrev) = 1) => (~amWrote /\ msgText = amPrev)

\* the second run, on another branch that has a ticket too, found the prefix
\* of the first run and left the file alone
C16_Witness ==
    /\ amCalls = 2
    /\ PrefixCount(msgText) = 1
    /\ amHead.outcome = "ok"
    /\ format_commit_message_from_branch(Trim(amHead.stdout)) # None
    /\ ~StartsWith(msgText, format_commit_message_from_branch(Trim(amHead.stdout))[1])
    /\ ~amWrote
    /\ amResult = Some([ok |-> TRUE])

=============================================================================
